---- MODULE Spec2Model ----
(***************************************************************************)
(* ReliableMulticast (dds/DCPS/transport/multicast/ReliableMulticast.cpp): *)
(* the reliable multicast data link of OpenDDS: per-peer reception gap     *)
(* tracking, the NAK repair cycle and the SYN/SYNACK handshake.            *)
(*                                                                         *)
(* One ReliableMulticast object is modelled.  All callbacks run on the     *)
(* transport reactor thread, so every handler is one atomic action.        *)
(* DisjointSequence and DataLinkWatchdog are used by the file but defined  *)
(* elsewhere in the repository; they are modelled from the written         *)
(* specification (sections 3, 4.2, 4.3 and 5).                             *)
(***************************************************************************)
EXTENDS Integers, FiniteSets, Sequences, TLC

\* ------------------------------------------------------------------ bounds
\* Largest sequence number a received transport header carries.
MaxSeq == 2
\* Saturation point of the observation counters.
MaxCount == 2
\* Number of datagrams that arrive in one run.
MaxDatagrams == 3
\* Largest sequence number where a tracker is exercised on its own.
MaxTrackerSeq == 4

\* ------------------------------------------------- identities and settings
\* local_peer_ and remote_peer_ as passed to the constructor.
LocalPeer == 1
RemotePeer == 2
\* A third member of the multicast group.
OtherPeer == 3
\* MulticastConfiguration durations, in clock units.
nak_interval_ == 1
nak_timeout_ == 2
syn_interval_ == 1
syn_timeout_ == 2

Peers == {LocalPeer, RemotePeer, OtherPeer}
\* Peers whose datagrams reach this link.
Senders == Peers \ {LocalPeer}
SequenceNumbers == 0..MaxSeq

Max(a, b) == IF a >= b THEN a ELSE b
Min(a, b) == IF a <= b THEN a ELSE b

\* ------------------------------------------------------- DisjointSequence
\* A tracker is [low, high, gaps]: gaps is the set of the sequence numbers in
\* [low, high) that have not been received.

\* DisjointSequence(value): the baseline; nothing is missing.
DisjointSequence(value) == [low |-> value, high |-> value, gaps |-> {}]

low(ds) == ds.low
high(ds) == ds.high
disjoint(ds) == ds.gaps # {}
depth(ds) == Cardinality(ds.gaps)

\* The value a tracker converts to where the caller compares it with a
\* sequence number: its high-water mark.
AsSequence(ds) == ds.high

\* update(value): TRUE iff value had not been recorded before.
update_result(ds, value) == value > ds.high \/ value \in ds.gaps

\* update(value): the tracker afterwards.
update(ds, value) ==
    IF value > ds.high
    THEN [ds EXCEPT !.high = value,
                    !.gaps = @ \cup ((ds.high + 1)..(value - 1))]
    ELSE [ds EXCEPT !.gaps = @ \ {value}]

\* As skip, but low is set to value even when value lies below it.
skip_resets_low(ds, value) ==
    [low |-> value,
     high |-> Max(ds.high, value),
     gaps |-> {g \in ds.gaps : g >= value}]

\* skip(value): low advances to value (it never moves back), every gap below
\* value is given up.
skip(ds, value) ==
    [low |-> Max(ds.low, value),
     high |-> Max(ds.high, value),
     gaps |-> {g \in ds.gaps : g >= value}]

\* range_begin() .. range_end(): the maximal runs of missing numbers, as
\* <<first, last>>, in ascending order.
RangeSet(ds) ==
    {r \in ds.gaps \X ds.gaps :
        /\ r[1] <= r[2]
        /\ \A g \in r[1]..r[2] : g \in ds.gaps
        /\ (r[1] - 1) \notin ds.gaps
        /\ (r[2] + 1) \notin ds.gaps}

RECURSIVE SortRanges(_)
SortRanges(rs) ==
    IF rs = {} THEN <<>>
    ELSE LET first == CHOOSE r \in rs : \A q \in rs : r[1] <= q[1]
         IN <<first>> \o SortRanges(rs \ {first})

ranges(ds) == SortRanges(RangeSet(ds))

\* ------------------------------------------------------- DataLinkWatchdog
\* A watchdog is [scheduled, due, elapsed]: due is the time left until its
\* timer expires, elapsed the time since it was scheduled.
idle_watchdog == [scheduled |-> FALSE, due |-> 0, elapsed |-> 0]

\* schedule(reactor): the first interval starts now.
schedule(interval) == [scheduled |-> TRUE, due |-> interval, elapsed |-> 0]

\* As cancel, but the timer stays in the reactor.
cancel_keeps_timer(w) == w

\* cancel(): no callback runs afterwards, not even one that is already due.
cancel(w) == [w EXCEPT !.scheduled = FALSE]

\* The next interval of a watchdog whose on_interval has just run.
reschedule(w, interval) == [w EXCEPT !.due = interval]

\* The watchdog's timer has expired and its handler has not run yet.
expired(w) == w.scheduled /\ w.due = 0

\* One clock unit passes.
elapse(w, cap) ==
    IF w.scheduled
    THEN [w EXCEPT !.due = @ - 1, !.elapsed = Min(@ + 1, cap)]
    ELSE w

\* -------------------------------------------------------------- messages
\* TRANSPORT_CONTROL submessages that carry (remote_peer, local_peer).
ControlSamples ==
    [kind : {"MULTICAST_SYN", "MULTICAST_SYNACK"}, remote : Senders, local : Peers]

\* The ranges the repair messages that arrive are about.
RepairRanges == {<<1, MaxSeq>>}

\* MULTICAST_NAK and MULTICAST_NAKACK: (remote_peer, local_peer) and the
\* range low..high the message is about.
RepairSamples ==
    {s \in [kind : {"MULTICAST_NAK", "MULTICAST_NAKACK"}, remote : Senders,
            local : Peers, low : SequenceNumbers, high : SequenceNumbers] :
        <<s.low, s.high>> \in RepairRanges}

\* Everything else sample_received tells apart.
OtherSamples ==
    [kind : {"UNKNOWN_CONTROL", "SAMPLE_ACK", "DATA"}, remote : {0}, local : {0}]

Samples == ControlSamples \cup RepairSamples \cup OtherSamples

\* The samples a datagram with this header can carry: a peer writes its own
\* identity into the header and into the control messages it sends.
SamplesOf(header) ==
    {s \in ControlSamples \cup RepairSamples :
        s.remote = header.source /\ s.local # s.remote}
    \cup OtherSamples

TransportHeaders == [source : Senders, sequence : SequenceNumbers]

\* A control message handed to send_control.
Control(kind, from, to, lo, hi) ==
    [kind |-> kind, local |-> from, remote |-> to, low |-> lo, high |-> hi]

\* What one send_* call can do: send, fail to allocate, fail in send_control.
SendOutcomes == {"ok", "no_memory", "send_error"}

VARIABLES
    lifecycle,      \* "created", "joined", "join_failed", "left"
    active,         \* the role join_i was called with
    acked_,
    recvd_header_,
    sequences_,     \* SequenceMap: registered peer -> tracker
    nak_history_,   \* NakHistory: set of [time, peer, high]; time is relative
                    \* to the current clock reading (0 is now)
    nak_watchdog_,
    syn_watchdog_,
    pending,        \* TRUE while the sample of an accepted datagram awaits
                    \* sample_received
    outbox,         \* the control messages the last handler sent, in order
    event,          \* the last handler that ran: [op, peer, arg, ret]
    log,            \* the errors and warnings the last handler logged
    accepted,       \* per registered peer, the sequence numbers accepted so far
    datagrams,      \* datagrams received so far
    notified,       \* calls of check_fully_association (saturating)
    timeouts        \* calls of SynWatchdog::on_timeout (saturating)

vars == <<lifecycle, active, acked_, recvd_header_, sequences_, nak_history_,
          nak_watchdog_, syn_watchdog_, pending, outbox, event, log,
          accepted, datagrams, notified, timeouts>>

Event(op, peer, arg, ret) == [op |-> op, peer |-> peer, arg |-> arg, ret |-> ret]

\* ReliableMulticast::ReliableMulticast
Init ==
    /\ lifecycle = "created"
    /\ active = FALSE
    /\ acked_ = FALSE
    /\ recvd_header_ = [source |-> 0, sequence |-> 0]
    /\ sequences_ = <<>>
    /\ nak_history_ = {}
    /\ nak_watchdog_ = idle_watchdog
    /\ syn_watchdog_ = idle_watchdog
    /\ pending = FALSE
    /\ outbox = <<>>
    /\ event = Event("constructor", 0, 0, TRUE)
    /\ log = {}
    /\ accepted = [p \in Senders |-> {}]
    /\ datagrams = 0
    /\ notified = 0
    /\ timeouts = 0

\* ------------------------------------------------------------- handlers
\* As insert, but written as an assignment: an existing entry is replaced.
insert_overwrite(seqs, peer, ds) ==
    [p \in DOMAIN seqs \cup {peer} |-> IF p = peer THEN ds ELSE seqs[p]]

\* SequenceMap::insert: an existing entry is kept.
insert(seqs, peer, ds) ==
    [p \in DOMAIN seqs \cup {peer} |-> IF p \in DOMAIN seqs THEN seqs[p] ELSE ds]

\* As header_received_result, but the result of update is dropped.
header_received_result_accepts_all(seqs, header) == TRUE

\* ReliableMulticast::header_received: the value returned.
header_received_result(seqs, header) ==
    IF header.source \notin DOMAIN seqs
    THEN TRUE
    ELSE update_result(seqs[header.source], header.sequence)

\* ReliableMulticast::header_received: sequences_ afterwards.
header_received_sequences(seqs, header) ==
    IF header.source \notin DOMAIN seqs
    THEN seqs
    ELSE [seqs EXCEPT ![header.source] = update(@, header.sequence)]

\* A datagram arrives: the framing layer calls header_received and hands the
\* sample to sample_received only if the header was accepted.
header_received ==
    /\ lifecycle = "joined"
    /\ ~pending
    /\ datagrams < MaxDatagrams
    /\ datagrams' = datagrams + 1
    /\ \E header \in TransportHeaders :
        LET ret == header_received_result(sequences_, header)
            known == header.source \in DOMAIN sequences_
        IN /\ recvd_header_' = header
           /\ sequences_' = header_received_sequences(sequences_, header)
           /\ pending' = ret
           /\ event' = Event("header_received", header.source, header.sequence, ret)
           /\ accepted' = IF known /\ ret
                          THEN [accepted EXCEPT ![header.source] = @ \cup {header.sequence}]
                          ELSE accepted
    /\ outbox' = <<>>
    /\ log' = {}
    /\ UNCHANGED <<lifecycle, active, acked_, nak_history_, nak_watchdog_,
                   syn_watchdog_, notified, timeouts>>

\* One send_* call: the message reaches the link only if the buffer could be
\* allocated and send_control succeeded.
send(message, outcome) == IF outcome = "ok" THEN <<message>> ELSE <<>>

\* The ACE_ERROR of a send_* call that did not send.
send_error(caller, outcome) == IF outcome = "ok" THEN {} ELSE {<<caller, outcome>>}

\* ReliableMulticast::send_synack
send_synack(remote_peer, outcome) ==
    send(Control("MULTICAST_SYNACK", LocalPeer, remote_peer, 0, 0), outcome)

\* ReliableMulticast::send_syn
send_syn(outcome) ==
    send(Control("MULTICAST_SYN", LocalPeer, RemotePeer, 0, 0), outcome)

\* ReliableMulticast::send_nak
send_nak(remote_peer, lo, hi, outcome) ==
    send(Control("MULTICAST_NAK", LocalPeer, remote_peer, lo, hi), outcome)

\* As syn_received_sequences, but a peer that is registered already gets a
\* new tracker at the baseline of this request.
syn_received_sequences_rebaselines(seqs, sample, header) ==
    IF sample.local # LocalPeer
    THEN seqs
    ELSE insert_overwrite(seqs, sample.remote, DisjointSequence(header.sequence))

\* ReliableMulticast::syn_received: sequences_ afterwards.
syn_received_sequences(seqs, sample, header) ==
    IF sample.local # LocalPeer
    THEN seqs
    ELSE insert(seqs, sample.remote, DisjointSequence(header.sequence))

\* As syn_received_outbox, but the reply goes to remote_peer_.
syn_received_outbox_to_assigned(sample, outcome) ==
    IF sample.local # LocalPeer
    THEN <<>>
    ELSE send_synack(RemotePeer, outcome)

\* ReliableMulticast::syn_received: what is sent.
syn_received_outbox(sample, outcome) ==
    IF sample.local # LocalPeer
    THEN <<>>
    ELSE send_synack(sample.remote, outcome)

\* sample_received, case MULTICAST_SYN
syn_received ==
    /\ pending
    /\ \E sample \in SamplesOf(recvd_header_), outcome \in SendOutcomes :
        /\ sample.kind = "MULTICAST_SYN"
        /\ sequences_' = syn_received_sequences(sequences_, sample, recvd_header_)
        /\ outbox' = syn_received_outbox(sample, outcome)
        /\ log' = IF sample.local # LocalPeer THEN {}
                  ELSE send_error("send_synack", outcome)
        /\ event' = Event("syn_received", sample.remote, sample.local, TRUE)
    /\ pending' = FALSE
    /\ UNCHANGED <<lifecycle, active, acked_, recvd_header_, nak_history_,
                   nak_watchdog_, syn_watchdog_, accepted, datagrams, notified, timeouts>>

\* As synack_destined, but the destination is not looked at.
synack_destined_any(sample) == TRUE

\* ReliableMulticast::synack_received: is the message for this link?
synack_destined(sample) == sample.local = LocalPeer

\* As synack_received, but the SYN watchdog is left running.
synack_received_keeps_watchdog ==
    /\ pending
    /\ \E sample \in SamplesOf(recvd_header_) :
        /\ sample.kind = "MULTICAST_SYNACK"
        /\ IF synack_destined(sample)
           THEN /\ acked_' = TRUE
                /\ notified' = Min(notified + 1, MaxCount)
           ELSE UNCHANGED <<acked_, notified>>
        /\ event' = Event("synack_received", sample.remote, sample.local, TRUE)
    /\ outbox' = <<>>
    /\ log' = {}
    /\ pending' = FALSE
    /\ UNCHANGED <<lifecycle, active, recvd_header_, sequences_, nak_history_,
                   nak_watchdog_, syn_watchdog_, accepted, datagrams, timeouts>>

\* sample_received, case MULTICAST_SYNACK
synack_received ==
    /\ pending
    /\ \E sample \in SamplesOf(recvd_header_) :
        /\ sample.kind = "MULTICAST_SYNACK"
        /\ IF synack_destined(sample)
           THEN /\ syn_watchdog_' = cancel(syn_watchdog_)
                /\ acked_' = TRUE
                /\ notified' = Min(notified + 1, MaxCount)
           ELSE UNCHANGED <<syn_watchdog_, acked_, notified>>
        /\ event' = Event("synack_received", sample.remote, sample.local, TRUE)
    /\ outbox' = <<>>
    /\ log' = {}
    /\ pending' = FALSE
    /\ UNCHANGED <<lifecycle, active, recvd_header_, sequences_, nak_history_,
                   nak_watchdog_, accepted, datagrams, timeouts>>

\* The call of a repair handler: the event with the range of the message.
RepairEvent(op, sample) ==
    [op |-> op, peer |-> sample.remote, arg |-> sample.local, ret |-> TRUE,
     low |-> sample.low, high |-> sample.high]

\* ReliableMulticast::send_nakack: the body is empty, nothing is sent.
send_nakack(remote_peer, lo, hi) == <<>>

\* sample_received, case MULTICAST_NAK: the body of nak_received is empty.
nak_received ==
    /\ pending
    /\ \E sample \in SamplesOf(recvd_header_) :
        /\ sample.kind = "MULTICAST_NAK"
        /\ event' = RepairEvent("nak_received", sample)
    /\ outbox' = <<>>
    /\ log' = {}
    /\ pending' = FALSE
    /\ UNCHANGED <<lifecycle, active, acked_, recvd_header_, sequences_,
                   nak_history_, nak_watchdog_, syn_watchdog_, accepted,
                   datagrams, notified, timeouts>>

\* sample_received, case MULTICAST_NAKACK: the body of nakack_received is
\* empty.
nakack_received ==
    /\ pending
    /\ \E sample \in SamplesOf(recvd_header_) :
        /\ sample.kind = "MULTICAST_NAKACK"
        /\ event' = RepairEvent("nakack_received", sample)
    /\ outbox' = <<>>
    /\ log' = {}
    /\ pending' = FALSE
    /\ UNCHANGED <<lifecycle, active, acked_, recvd_header_, sequences_,
                   nak_history_, nak_watchdog_, syn_watchdog_, accepted,
                   datagrams, notified, timeouts>>

\* sample_received, the remaining cases: an unknown submessage (logged),
\* SAMPLE_ACK and data (handled by the base class, which keeps none of this
\* state).
other_received ==
    /\ pending
    /\ \E sample \in SamplesOf(recvd_header_) :
        /\ sample.kind \in {"UNKNOWN_CONTROL", "SAMPLE_ACK", "DATA"}
        /\ event' = Event("other_received", 0, 0, TRUE)
        /\ log' = IF sample.kind = "UNKNOWN_CONTROL"
                  THEN {<<"sample_received", "unknown submessage">>} ELSE {}
    /\ outbox' = <<>>
    /\ pending' = FALSE
    /\ UNCHANGED <<lifecycle, active, acked_, recvd_header_, sequences_,
                   nak_history_, nak_watchdog_, syn_watchdog_, accepted,
                   datagrams, notified, timeouts>>

\* ReliableMulticast::sample_received
sample_received ==
    \/ syn_received
    \/ synack_received
    \/ nak_received
    \/ nakack_received
    \/ other_received

\* ------------------------------------------------------------ NAK cycle
\* ACE_OS::gettimeofday(), in the frame nak_history_ is kept in.
now == 0

\* As expired_naks, but with lower_bound: an entry recorded exactly
\* nak_timeout_ ago is not expired yet.
expired_naks_lower_bound(history) == {it \in history : it.time < now - nak_timeout_}

\* The entries [begin(), upper_bound(deadline)) of nak_history_.
expired_naks(history) == {it \in history : it.time <= now - nak_timeout_}

\* As expire_each, but a peer whose high equals the recorded one is skipped too.
RECURSIVE expire_each_skips_at_equal(_, _)
expire_each_skips_at_equal(seqs, entries) ==
    IF entries = {} THEN seqs
    ELSE LET it == CHOOSE e \in entries : \A f \in entries :
                      \/ e.time < f.time
                      \/ e.time = f.time /\ e.peer < f.peer
                      \/ e.time = f.time /\ e.peer = f.peer /\ e.high <= f.high
             rest == entries \ {it}
         IN IF it.peer \notin DOMAIN seqs
            THEN expire_each_skips_at_equal(seqs, rest)
            ELSE IF it.high >= AsSequence(seqs[it.peer])
                 THEN expire_each_skips_at_equal(
                          [seqs EXCEPT ![it.peer] = skip(@, it.high)], rest)
                 ELSE expire_each_skips_at_equal(seqs, rest)

\* The loop of expire_naks over the expired entries, oldest first.
RECURSIVE expire_each(_, _)
expire_each(seqs, entries) ==
    IF entries = {} THEN seqs
    ELSE LET it == CHOOSE e \in entries : \A f \in entries :
                      \/ e.time < f.time
                      \/ e.time = f.time /\ e.peer < f.peer
                      \/ e.time = f.time /\ e.peer = f.peer /\ e.high <= f.high
             rest == entries \ {it}
         IN IF it.peer \notin DOMAIN seqs
            THEN expire_each(seqs, rest)
            ELSE IF it.high > AsSequence(seqs[it.peer])
                 THEN expire_each([seqs EXCEPT ![it.peer] = skip(@, it.high)], rest)
                 ELSE expire_each(seqs, rest)

\* ReliableMulticast::expire_naks: sequences_ afterwards.
expire_naks_sequences(seqs, history) == expire_each(seqs, expired_naks(history))

\* As expire_naks_history, but erase(first) is called instead of
\* erase(first, last): only the oldest expired entry is removed.
expire_naks_history_erases_first(history) ==
    history \ {it \in expired_naks(history) : \A f \in expired_naks(history) :
                  \/ it.time < f.time
                  \/ it.time = f.time /\ it.peer <= f.peer}

\* ReliableMulticast::expire_naks: nak_history_ afterwards.
expire_naks_history(history) == history \ expired_naks(history)

\* As send_naks_history, but the ledger holds one entry per timestamp: only
\* the first disjoint peer of a tick is recorded.
send_naks_history_unique_time(seqs, history) ==
    history \cup {[time |-> now, peer |-> p, high |-> high(seqs[p])] :
                    p \in {q \in DOMAIN seqs :
                             /\ disjoint(seqs[q])
                             /\ \A r \in DOMAIN seqs : disjoint(seqs[r]) => q <= r}}

\* ReliableMulticast::send_naks: nak_history_ afterwards.
send_naks_history(seqs, history) ==
    history \cup {[time |-> now, peer |-> p, high |-> high(seqs[p])] :
                    p \in {q \in DOMAIN seqs : disjoint(seqs[q])}}

\* The send_nak calls of the peers in ps, in the order of the map.
RECURSIVE nak_calls(_, _)
nak_calls(seqs, ps) ==
    IF ps = {} THEN <<>>
    ELSE LET p == CHOOSE q \in ps : \A r \in ps : q <= r
             rs == ranges(seqs[p])
         IN [i \in 1..Len(rs) |-> [peer |-> p, low |-> rs[i][1], high |-> rs[i][2]]]
            \o nak_calls(seqs, ps \ {p})

\* ReliableMulticast::send_naks: the send_nak calls it makes, in order.
send_naks_calls(seqs) == nak_calls(seqs, {q \in DOMAIN seqs : disjoint(seqs[q])})

\* The messages the calls from the i-th on put on the link.
RECURSIVE naks_sent(_, _, _)
naks_sent(calls, outcomes, i) ==
    IF i > Len(calls) THEN <<>>
    ELSE send_nak(calls[i].peer, calls[i].low, calls[i].high, outcomes[i])
         \o naks_sent(calls, outcomes, i + 1)

\* What n send_* calls in a row can do.
RECURSIVE OutcomesOf(_)
OutcomesOf(n) ==
    IF n = 0 THEN {<<>>}
    ELSE {Append(os, o) : os \in OutcomesOf(n - 1), o \in SendOutcomes}

\* ReliableMulticast::expire_naks: what it logs.
expire_naks_log(seqs, history) ==
    {<<"expire_naks", "failed to find sequence">> :
        it \in {e \in expired_naks(history) : e.peer \notin DOMAIN seqs}}
    \cup {<<"expire_naks", "skipping datagrams">> :
        it \in {e \in expired_naks(history) :
                  e.peer \in DOMAIN seqs /\ seqs[e.peer] # expire_each(seqs, {e})[e.peer]}}

\* NakWatchdog::on_interval: expire_naks, then send_naks.
nak_on_interval ==
    /\ ~pending
    /\ expired(nak_watchdog_)
    /\ \E seqs \in {expire_naks_sequences(sequences_, nak_history_)} :
        \E calls \in {send_naks_calls(seqs)} :
          /\ sequences_' = seqs
          /\ nak_history_' = send_naks_history(seqs, expire_naks_history(nak_history_))
          /\ \E outcomes \in OutcomesOf(Len(calls)) :
                /\ outbox' = naks_sent(calls, outcomes, 1)
                /\ log' = expire_naks_log(sequences_, nak_history_)
                           \cup UNION {send_error("send_nak", outcomes[i]) :
                                         i \in 1..Len(calls)}
    /\ nak_watchdog_' = reschedule(nak_watchdog_, nak_interval_)
    /\ event' = Event("nak_on_interval", 0, Cardinality(expired_naks(nak_history_)), TRUE)
    /\ UNCHANGED <<lifecycle, active, acked_, recvd_header_, syn_watchdog_,
                   pending, accepted, datagrams, notified, timeouts>>

\* ------------------------------------------------------------ handshake
\* The SYN watchdog's timer expired after its timeout has passed.
timed_out(w) == w.elapsed > syn_timeout_

\* As syn_on_interval, but send_syn is not called.
syn_on_interval_silent ==
    /\ ~pending
    /\ expired(syn_watchdog_)
    /\ ~timed_out(syn_watchdog_)
    /\ outbox' = <<>>
    /\ log' = {}
    /\ syn_watchdog_' = reschedule(syn_watchdog_, syn_interval_)
    /\ event' = Event("syn_on_interval", RemotePeer, 0, TRUE)
    /\ UNCHANGED <<lifecycle, active, acked_, recvd_header_, sequences_,
                   nak_history_, nak_watchdog_, pending, accepted, datagrams, notified,
                   timeouts>>

\* SynWatchdog::on_interval
syn_on_interval ==
    /\ ~pending
    /\ expired(syn_watchdog_)
    /\ ~timed_out(syn_watchdog_)
    /\ \E outcome \in SendOutcomes :
        /\ outbox' = send_syn(outcome)
        /\ log' = send_error("send_syn", outcome)
    /\ syn_watchdog_' = reschedule(syn_watchdog_, syn_interval_)
    /\ event' = Event("syn_on_interval", RemotePeer, 0, TRUE)
    /\ UNCHANGED <<lifecycle, active, acked_, recvd_header_, sequences_,
                   nak_history_, nak_watchdog_, pending, accepted, datagrams, notified,
                   timeouts>>

\* SynWatchdog::on_timeout: the failure is logged; the watchdog ends.
syn_on_timeout ==
    /\ ~pending
    /\ expired(syn_watchdog_)
    /\ timed_out(syn_watchdog_)
    /\ syn_watchdog_' = cancel(syn_watchdog_)
    /\ timeouts' = Min(timeouts + 1, MaxCount)
    /\ outbox' = <<>>
    /\ log' = {<<"on_timeout", "timed out handshaking">>}
    /\ event' = Event("syn_on_timeout", RemotePeer, 0, TRUE)
    /\ UNCHANGED <<lifecycle, active, acked_, recvd_header_, sequences_,
                   nak_history_, nak_watchdog_, pending, accepted, datagrams, notified>>

\* ------------------------------------------------------------ lifecycle
\* ReliableMulticast::join_i
join_i ==
    /\ lifecycle = "created"
    /\ \E role \in BOOLEAN, reactor \in BOOLEAN, nak_ok \in BOOLEAN, syn_ok \in BOOLEAN :
        LET ret == reactor /\ nak_ok /\ (role => syn_ok)
        IN /\ active' = role
           /\ lifecycle' = IF ret THEN "joined" ELSE "join_failed"
           /\ nak_watchdog_' = IF ret THEN schedule(nak_interval_)
                               ELSE IF reactor /\ nak_ok
                                    THEN cancel(schedule(nak_interval_))
                                    ELSE nak_watchdog_
           /\ syn_watchdog_' = IF ret /\ role THEN schedule(syn_interval_)
                               ELSE syn_watchdog_
           /\ event' = Event("join_i", 0, 0, ret)
           /\ log' = IF ret THEN {} ELSE {<<"join_i", "failed">>}
    /\ outbox' = <<>>
    /\ UNCHANGED <<acked_, recvd_header_, sequences_, nak_history_, pending,
                   accepted, datagrams, notified, timeouts>>

\* As leave_i, but the handshake state is cleared as well.
leave_i_resets_acked ==
    /\ lifecycle = "joined"
    /\ ~pending
    /\ syn_watchdog_' = cancel(syn_watchdog_)
    /\ nak_watchdog_' = cancel(nak_watchdog_)
    /\ acked_' = FALSE
    /\ lifecycle' = "left"
    /\ outbox' = <<>>
    /\ log' = {}
    /\ event' = Event("leave_i", 0, 0, TRUE)
    /\ UNCHANGED <<active, recvd_header_, sequences_, nak_history_,
                   pending, accepted, datagrams, notified, timeouts>>

\* ReliableMulticast::leave_i
leave_i ==
    /\ lifecycle = "joined"
    /\ ~pending
    /\ syn_watchdog_' = cancel(syn_watchdog_)
    /\ nak_watchdog_' = cancel(nak_watchdog_)
    /\ lifecycle' = "left"
    /\ outbox' = <<>>
    /\ log' = {}
    /\ event' = Event("leave_i", 0, 0, TRUE)
    /\ UNCHANGED <<active, acked_, recvd_header_, sequences_, nak_history_,
                   pending, accepted, datagrams, notified, timeouts>>

\* ---------------------------------------------------------------- clock
\* One clock unit passes; a timer that has expired is handled first.
clock_tick ==
    /\ lifecycle = "joined"
    /\ ~pending
    /\ ~expired(nak_watchdog_)
    /\ ~expired(syn_watchdog_)
    /\ nak_watchdog_' = elapse(nak_watchdog_, 0)
    /\ syn_watchdog_' = elapse(syn_watchdog_, syn_timeout_ + 1)
    /\ nak_history_' = {[it EXCEPT !.time = @ - 1] : it \in nak_history_}
    /\ outbox' = <<>>
    /\ log' = {}
    /\ event' = Event("clock_tick", 0, 0, TRUE)
    /\ UNCHANGED <<lifecycle, active, acked_, recvd_header_, sequences_,
                   pending, accepted, datagrams, notified, timeouts>>

Next ==
    \/ join_i
    \/ leave_i
    \/ header_received
    \/ sample_received
    \/ nak_on_interval
    \/ syn_on_interval
    \/ syn_on_timeout
    \/ clock_tick

Spec == Init /\ [][Next]_vars

\* ------------------------------------------------- DisjointSequence alone
\* One tracker, registered at any baseline, under any sequence of update and
\* skip calls.
TrackerSeqs == 0..MaxTrackerSeq

TrackerInit ==
    /\ lifecycle = "joined"
    /\ active = FALSE
    /\ acked_ = FALSE
    /\ recvd_header_ = [source |-> 0, sequence |-> 0]
    /\ \E value \in TrackerSeqs :
          sequences_ = [p \in {RemotePeer} |-> DisjointSequence(value)]
    /\ nak_history_ = {}
    /\ nak_watchdog_ = schedule(nak_interval_)
    /\ syn_watchdog_ = idle_watchdog
    /\ pending = FALSE
    /\ outbox = <<>>
    /\ event = Event("constructor", 0, 0, TRUE)
    /\ log = {}
    /\ accepted = [p \in Senders |-> {}]
    /\ datagrams = 0
    /\ notified = 0
    /\ timeouts = 0

\* DisjointSequence::update(value) on the tracker of RemotePeer.
tracker_update ==
    /\ \E value \in TrackerSeqs :
        /\ sequences_' = [sequences_ EXCEPT ![RemotePeer] = update(@, value)]
        /\ event' = Event("update", RemotePeer, value,
                          update_result(sequences_[RemotePeer], value))
    /\ UNCHANGED <<lifecycle, active, acked_, recvd_header_, nak_history_,
                   nak_watchdog_, syn_watchdog_, pending, outbox, log, accepted,
                   datagrams, notified, timeouts>>

\* DisjointSequence::skip(value) on the tracker of RemotePeer.
tracker_skip ==
    /\ \E value \in TrackerSeqs :
        /\ sequences_' = [sequences_ EXCEPT ![RemotePeer] = skip(@, value)]
        /\ event' = Event("skip", RemotePeer, value, TRUE)
    /\ UNCHANGED <<lifecycle, active, acked_, recvd_header_, nak_history_,
                   nak_watchdog_, syn_watchdog_, pending, outbox, log, accepted,
                   datagrams, notified, timeouts>>

TrackerNext ==
    \/ tracker_update
    \/ tracker_skip

TrackerSpec == TrackerInit /\ [][TrackerNext]_vars

\* ------------------------------------------------------ repair cycle alone
\* The trackers a registered peer can have: registered at low, high received,
\* any of the sequence numbers between them missing.
Trackers ==
    UNION {{[low |-> lh[1], high |-> lh[2], gaps |-> gs] :
               gs \in SUBSET ((lh[1] + 1)..(lh[2] - 1))} :
           lh \in {x \in TrackerSeqs \X TrackerSeqs : x[1] <= x[2]}}

\* The sequence maps of a link: any of the senders registered.
SequenceMaps == UNION {[ps -> Trackers] : ps \in SUBSET Senders}

\* A joined passive link with any sequence map, at the start of a NAK
\* interval, with no repair request outstanding.
RepairInit ==
    /\ lifecycle = "joined"
    /\ active = FALSE
    /\ acked_ = FALSE
    /\ recvd_header_ = [source |-> 0, sequence |-> 0]
    /\ sequences_ \in SequenceMaps
    /\ nak_history_ = {}
    /\ nak_watchdog_ = schedule(nak_interval_)
    /\ syn_watchdog_ = idle_watchdog
    /\ pending = FALSE
    /\ outbox = <<>>
    /\ event = Event("constructor", 0, 0, TRUE)
    /\ log = {}
    /\ accepted = [p \in Senders |->
                     IF p \in DOMAIN sequences_
                     THEN ((low(sequences_[p]) + 1)..high(sequences_[p]))
                          \ sequences_[p].gaps
                     ELSE {}]
    /\ datagrams = MaxDatagrams
    /\ notified = 0
    /\ timeouts = 0

\* Nothing arrives any more: time passes and the NAK watchdog runs.
RepairNext ==
    \/ clock_tick
    \/ nak_on_interval

RepairSpec == RepairInit /\ [][RepairNext]_vars

\* ------------------------------------------------------ expire phase alone
\* ReliableMulticast::expire_naks, called on its own while the NAK watchdog's
\* interval is due.  The event records how many entries were erased (arg) and
\* how many the call right before erased (first; -1 if the step before was
\* not expire_naks).
expire_naks ==
    /\ lifecycle = "joined"
    /\ ~pending
    /\ expired(nak_watchdog_)
    /\ \E seqs \in {expire_naks_sequences(sequences_, nak_history_)} :
          sequences_' = seqs
    /\ nak_history_' = expire_naks_history(nak_history_)
    /\ log' = expire_naks_log(sequences_, nak_history_)
    /\ outbox' = <<>>
    /\ event' = [op |-> "expire_naks", peer |-> 0,
                 arg |-> Cardinality(expired_naks(nak_history_)), ret |-> TRUE,
                 first |-> IF event.op = "expire_naks" THEN event.arg ELSE -1]
    /\ UNCHANGED <<lifecycle, active, acked_, recvd_header_, nak_watchdog_,
                   syn_watchdog_, pending, accepted, datagrams, notified, timeouts>>

\* The repair cycle, with expire_naks also called on its own.
ExpireNext ==
    \/ clock_tick
    \/ nak_on_interval
    \/ expire_naks

ExpireSpec == RepairInit /\ [][ExpireNext]_vars

\* A step of the reactor's event loop: time passes, a timer that is due is
\* handled, an accepted sample is dispatched.
reactor_step ==
    \/ clock_tick
    \/ nak_on_interval
    \/ syn_on_interval
    \/ syn_on_timeout
    \/ sample_received

\* The reactor keeps running: it does not stop while it has a step to take.
FairSpec == Spec /\ WF_vars(reactor_step)

\* =============================================================== claims
\* The handshake-ack this link sends to a peer, and its handshake-request.
SynAckTo(peer) == Control("MULTICAST_SYNACK", LocalPeer, peer, 0, 0)
SynToRemote == Control("MULTICAST_SYN", LocalPeer, RemotePeer, 0, 0)

\* The last step ran syn_received (synack_received) on a message for LocalPeer.
SynForUs(e) == e.op = "syn_received" /\ e.arg = LocalPeer
SynAckForUs(e) == e.op = "synack_received" /\ e.arg = LocalPeer

\* C1: while a peer is registered, header_received returns true at most once
\* per sequence number of that peer: a call that returns true carries a
\* sequence number that no earlier call for the registered peer accepted.
C1_AcceptedAtMostOnce ==
    [][(/\ event'.op = "header_received"
        /\ event'.peer \in DOMAIN sequences_
        /\ event'.ret)
       => event'.arg \notin accepted[event'.peer]]_vars

\* C1 witness: a repeated sequence number of a registered peer was dropped.
C1_DuplicateDropped ==
    /\ event.op = "header_received"
    /\ ~event.ret
    /\ event.peer \in DOMAIN sequences_
    /\ event.arg \in accepted[event.peer]

\* C2: acked_ is false in a link that has not joined yet and, once true, it is
\* true after every later step.
C2_AckedNeverReset ==
    /\ [](lifecycle = "created" => ~acked_)
    /\ [][acked_ => acked_']_vars

\* C2 witness: acked_ is still true after the handshake timed out, a late
\* handshake-ack arrived and the link left.
C2_AckedAfterTimeoutAndLeave == acked_ /\ timeouts > 0 /\ lifecycle = "left"

\* C3: a link that joined as passive never has acked() = true.
C3_PassiveNeverAcked == (lifecycle # "created" /\ ~active) => ~acked_

\* C4: syn_received on a handshake-request for LocalPeer registers an unknown
\* sender with the baseline of the header that carried the request, and leaves
\* the tracker of a sender that is already registered as it was.
C4_SynRegistersBaseline ==
    [][SynForUs(event') =>
        /\ event'.peer \in DOMAIN sequences_'
        /\ IF event'.peer \in DOMAIN sequences_
           THEN sequences_'[event'.peer] = sequences_[event'.peer]
           ELSE sequences_'[event'.peer] =
                    [low |-> recvd_header_.sequence,
                     high |-> recvd_header_.sequence,
                     gaps |-> {}]]_vars

\* C4 witness: a repeated handshake-request from a registered sender whose
\* tracker holds a gap; the gap is still there.
C4_RetriedSynKeepsGaps ==
    /\ SynForUs(event)
    /\ event.peer \in DOMAIN sequences_
    /\ sequences_[event.peer].gaps # {}

\* C5 as stated: every handshake-request for LocalPeer that syn_received
\* processes puts exactly one handshake-ack, addressed to the sender, on the
\* link.
C5_ExactlyOneAckSent ==
    [][SynForUs(event') => outbox' = <<SynAckTo(event'.peer)>>]_vars

\* C5 amended: syn_received makes one send_synack call for the sender: exactly
\* one handshake-ack addressed to the sender is sent, unless the buffer cannot
\* be allocated or send_control fails; then none is sent and the error is
\* logged.
C5_OneAckUnlessSendFails ==
    [][SynForUs(event') =>
        \/ outbox' = <<SynAckTo(event'.peer)>> /\ log' = {}
        \/ /\ outbox' = <<>>
           /\ log' \in {{<<"send_synack", "no_memory">>},
                        {<<"send_synack", "send_error">>}}]_vars

\* C5 witness: an acknowledged active link acks a handshake-request of the
\* peer that is not its assigned remote peer.
C5_AckedLinkStillAcks ==
    /\ SynForUs(event)
    /\ event.peer = OtherPeer
    /\ active /\ acked_
    /\ outbox = <<SynAckTo(OtherPeer)>>

\* No handshake-request is among the messages.
NoSyn(messages) == \A i \in 1..Len(messages) : messages[i].kind # "MULTICAST_SYN"

\* C6: a handshake-request or handshake-ack for another peer changes nothing:
\* no peer is registered, nothing is sent, acked_ and both watchdogs are as
\* before and the session manager is not notified.
C6_NotDestinedIgnored ==
    [][(event'.op \in {"syn_received", "synack_received"} /\ event'.arg # LocalPeer)
       => /\ UNCHANGED <<sequences_, acked_, syn_watchdog_, nak_watchdog_,
                         nak_history_, recvd_header_, notified, lifecycle>>
          /\ outbox' = <<>>]_vars

\* C6 witness: a handshake-ack for another peer reached an active link that
\* is still waiting for its own.
C6_ForeignAckIgnored ==
    /\ event.op = "synack_received"
    /\ event.arg # LocalPeer
    /\ active /\ ~acked_
    /\ syn_watchdog_.scheduled

\* C7: once an active link has processed a handshake-ack for LocalPeer its SYN
\* watchdog is cancelled: no step after that runs on_interval or on_timeout,
\* and no handshake-request is sent.
C7_NoSynAfterAck ==
    /\ [](active /\ acked_ => ~syn_watchdog_.scheduled)
    /\ [][(active /\ acked_)
          => /\ event'.op \notin {"syn_on_interval", "syn_on_timeout"}
             /\ NoSyn(outbox')]_vars

\* C7 witness: the handshake-ack was processed while a callback of the SYN
\* watchdog was due (its timer had expired and the handler had not run yet),
\* and time has passed since.
C7_AckWhileCallbackDue ==
    /\ active /\ acked_
    /\ lifecycle = "joined"
    /\ timeouts = 0
    /\ ~syn_watchdog_.scheduled
    /\ syn_watchdog_.due = 0
    /\ syn_watchdog_.elapsed > 0
    /\ event.op = "clock_tick"

\* C8: check_fully_association is called at most once per link.
C8_NotifiedAtMostOnce == notified <= 1

\* The active link has processed no handshake-ack for LocalPeer.
Unanswered == active /\ notified = 0

\* C9 as stated: an active link that gets no handshake-ack keeps its SYN
\* watchdog until the timeout, sends a handshake-request on every interval,
\* times out at most once, is still not acknowledged then, and sends no
\* handshake-request after the timeout.
C9_SynOnEveryInterval ==
    /\ [](Unanswered /\ lifecycle = "joined" /\ timeouts = 0 => syn_watchdog_.scheduled)
    /\ [][(Unanswered /\ event'.op = "syn_on_interval")
          => outbox' = <<SynToRemote>>]_vars
    /\ [](Unanswered => timeouts <= 1 /\ ~acked_)
    /\ [][(Unanswered /\ timeouts > 0)
          => event'.op # "syn_on_interval" /\ NoSyn(outbox')]_vars

\* C9 amended: as C9, but send_syn is called on every interval and sends one
\* handshake-request unless the buffer cannot be allocated or send_control
\* fails (then the error is logged and that interval sends nothing); and the
\* timeout callback does run, once, if the link gets no handshake-ack and
\* does not leave.
C9_SendSynOnEveryInterval ==
    /\ [](Unanswered /\ lifecycle = "joined" /\ timeouts = 0 => syn_watchdog_.scheduled)
    /\ [][(Unanswered /\ event'.op = "syn_on_interval")
          => \/ outbox' = <<SynToRemote>> /\ log' = {}
             \/ /\ outbox' = <<>>
                /\ log' \in {{<<"send_syn", "no_memory">>},
                             {<<"send_syn", "send_error">>}}]_vars
    /\ [](Unanswered => timeouts <= 1 /\ ~acked_)
    /\ [][(Unanswered /\ timeouts > 0)
          => event'.op # "syn_on_interval" /\ NoSyn(outbox')]_vars
    /\ (Unanswered /\ lifecycle = "joined")
          ~> (timeouts = 1 \/ ~Unanswered \/ lifecycle = "left")

\* C9 witness: the handshake timed out once, the link is not acknowledged and
\* time goes on.
C9_TimedOutOnce ==
    /\ Unanswered /\ ~acked_
    /\ lifecycle = "joined"
    /\ timeouts = 1
    /\ event.op = "clock_tick"

\* C10: a registered peer with gaps, from which nothing arrives any more, is
\* eventually skipped: its tracker stops being disjoint (unless a datagram of
\* the peer arrives or the link leaves).
C10_SilentPeerSkipped ==
    \A p \in Senders :
        (lifecycle = "joined" /\ p \in DOMAIN sequences_ /\ disjoint(sequences_[p]))
        ~> \/ p \in DOMAIN sequences_ /\ ~disjoint(sequences_[p])
           \/ event.op = "header_received" /\ event.peer = p
           \/ lifecycle = "left"

\* The last step ran the NAK watchdog's interval: expire_naks, then send_naks.
RepairTick(e) == e.op = "nak_on_interval"

\* The gaps of a tracker below a sequence number.
GapsBelow(ds, value) == {g \in ds.gaps : g < value}

\* C11: when a ledger entry (peer, h) of a registered peer expires while the
\* peer's tracked high is still h, skip(peer, h) is called: after the repair
\* tick the peer's tracker holds no gap below h.
C11_ExpiredAtSameHighSkips ==
    [][RepairTick(event') =>
        \A it \in expired_naks(nak_history_) :
            (it.peer \in DOMAIN sequences_ /\ high(sequences_[it.peer]) = it.high)
            => GapsBelow(sequences_'[it.peer], it.high) = {}]_vars

\* The last step ran nak_received (nakack_received) on a message for LocalPeer.
NakForUs(e) == e.op = "nak_received" /\ e.arg = LocalPeer
NakAckForUs(e) == e.op = "nakack_received" /\ e.arg = LocalPeer

\* C12: a repair-ack for low..high addressed to LocalPeer from a registered
\* sender skips the sender's tracker to high: afterwards its low is at least
\* high and it holds no gap below high.
C12_NakAckSkips ==
    [][(NakAckForUs(event') /\ event'.peer \in DOMAIN sequences_) =>
        /\ low(sequences_'[event'.peer]) >= event'.high
        /\ GapsBelow(sequences_'[event'.peer], event'.high) = {}]_vars

\* The message answers sequence number n of a repair-request of peer: it is a
\* retransmitted sample or a repair-ack, sent to peer, that covers n.
Answers(message, peer, n) ==
    /\ message.kind \in {"DATA", "MULTICAST_NAKACK"}
    /\ message.remote = peer
    /\ message.low <= n /\ n <= message.high

\* C13: every sequence number of a repair-request addressed to LocalPeer is
\* answered, by a retransmission or by a repair-ack that covers it.
C13_NakAnswered ==
    [][NakForUs(event') =>
        \A n \in event'.low..event'.high :
            \E i \in 1..Len(outbox') : Answers(outbox'[i], event'.peer, n)]_vars

IsGapRange(ds, lo, hi) ==
    /\ lo <= hi
    /\ \A g \in lo..hi : g \in ds.gaps
    /\ (lo - 1) \notin ds.gaps
    /\ (hi + 1) \notin ds.gaps

\* The number of repair-requests for low..high sent to peer.
NaksSent(messages, peer, lo, hi) ==
    Cardinality({i \in 1..Len(messages) :
                    messages[i] = Control("MULTICAST_NAK", LocalPeer, peer, lo, hi)})

\* The ledger entries recorded at the current time.
RecordedNow(history) == {it \in history : it.time = now}

\* The request phase records exactly one entry (now, peer, high(peer)) for
\* every registered peer whose tracker is disjoint and none for any other.
OneEntryPerDisjointPeer ==
    RecordedNow(nak_history_') =
        {[time |-> now, peer |-> p, high |-> high(sequences_'[p])] :
            p \in {q \in DOMAIN sequences_' : disjoint(sequences_'[q])}}

\* C15 as stated: in a repair tick every registered disjoint peer gets exactly
\* one new ledger entry (now, peer, high(peer)), also when several peers are
\* disjoint in the same tick, and exactly one repair-request per gap range is
\* sent; a peer without gaps gets neither.
C15_OneNakPerRange ==
    [][RepairTick(event') =>
        /\ OneEntryPerDisjointPeer
        /\ \A i \in 1..Len(outbox') : outbox'[i].kind = "MULTICAST_NAK"
        /\ \A p \in Senders, lo \in TrackerSeqs, hi \in TrackerSeqs :
              NaksSent(outbox', p, lo, hi) =
                  IF p \in DOMAIN sequences_' /\ IsGapRange(sequences_'[p], lo, hi)
                  THEN 1 ELSE 0]_vars

\* C15 amended: as C15, but one send_nak call is made per gap range: it sends
\* one repair-request unless the buffer cannot be allocated or send_control
\* fails; a request is missing only if such an error was logged.
C15_OneSendNakPerRange ==
    [][RepairTick(event') =>
        /\ OneEntryPerDisjointPeer
        /\ \A i \in 1..Len(outbox') : outbox'[i].kind = "MULTICAST_NAK"
        /\ \A p \in Senders, lo \in TrackerSeqs, hi \in TrackerSeqs :
              IF p \in DOMAIN sequences_' /\ IsGapRange(sequences_'[p], lo, hi)
              THEN \/ NaksSent(outbox', p, lo, hi) = 1
                   \/ /\ NaksSent(outbox', p, lo, hi) = 0
                      /\ log' \cap {<<"send_nak", "no_memory">>,
                                    <<"send_nak", "send_error">>} # {}
              ELSE NaksSent(outbox', p, lo, hi) = 0]_vars

\* C15 witness: two peers are disjoint in the same tick, one of them with two
\* gap ranges; two entries are recorded and three repair-requests are sent.
C15_TwoPeersThreeRanges ==
    /\ RepairTick(event)
    /\ Cardinality(RecordedNow(nak_history_)) = 2
    /\ Len(outbox) = 3
    /\ log = {}

\* The recorded highs of the expired ledger entries of a peer.
ExpiredMarks(history, peer) ==
    {it.high : it \in {e \in history : e.time <= now - nak_timeout_ /\ e.peer = peer}}

C17_SecondExpireChangesNothing ==
    [][(event.op = "expire_naks" /\ event'.op = "expire_naks") =>
        /\ UNCHANGED <<sequences_, nak_history_>>
        /\ event'.arg = 0
        /\ log' = {}]_vars

\* C17 witness: the expire phase has just run for the second time in a row;
\* the first run erased the entries of two peers.
C17_SecondRunAfterTwoErased ==
    /\ event.op = "expire_naks"
    /\ event.first = 2

\* The ledger holds an entry recorded k clock units ago.
Aged(k) == \E it \in nak_history_ : it.time = now - k

\* What a repair tick does to the ledger: an entry recorded later than
\* now - nak_timeout_ stays, every other entry is removed, and the only new
\* entries are recorded at now.  What every other step does: time passing
\* ages every entry by one unit, nothing else touches the ledger.
LedgerStep ==
    /\ RepairTick(event') =>
          /\ \A it \in nak_history_ :
                IF it.time > now - nak_timeout_
                THEN it \in nak_history_'
                ELSE it \notin nak_history_'
          /\ \A it \in nak_history_' : it \in nak_history_ \/ it.time = now
    /\ event'.op = "clock_tick" =>
          /\ Cardinality(nak_history_') = Cardinality(nak_history_)
          /\ \A it \in nak_history_ : [it EXCEPT !.time = @ - 1] \in nak_history_'
    /\ (~RepairTick(event') /\ event'.op # "clock_tick") => UNCHANGED nak_history_

\* C18 as stated: every ledger entry is eventually removed, and only by
\* expiry: it stays through every repair tick before it is nak_timeout_ old
\* and the first repair tick at which it is that old removes it.
C18_EveryEntryRemoved ==
    /\ [][LedgerStep]_vars
    /\ [](\A it \in nak_history_ : it.time >= now - nak_timeout_)
    /\ \A k \in 0..(nak_timeout_ - 1) : Aged(k) ~> Aged(k + 1)
    /\ Aged(nak_timeout_) ~> ~Aged(nak_timeout_)

\* C18 amended: as C18, for a link that stays joined: leave_i cancels the NAK
\* watchdog and does not touch the ledger, so the entries outstanding when
\* the link leaves are not removed.
C18_EntryRemovedWhileJoined ==
    /\ [][LedgerStep]_vars
    /\ [](\A it \in nak_history_ : it.time >= now - nak_timeout_)
    /\ \A k \in 0..(nak_timeout_ - 1) :
          (lifecycle = "joined" /\ Aged(k)) ~> (Aged(k + 1) \/ lifecycle = "left")
    /\ (lifecycle = "joined" /\ Aged(nak_timeout_))
          ~> (~Aged(nak_timeout_) \/ lifecycle = "left")

\* C18 witness: a repair tick has removed an entry that was nak_timeout_ old
\* and kept a younger one.
C18_OldRemovedYoungKept ==
    /\ RepairTick(event)
    /\ event.arg > 0
    /\ Aged(1)
    /\ ~Aged(nak_timeout_)

\* A watchdog callback has run: the expire and request phases of the NAK
\* watchdog, or the SYN watchdog's handshake-request or timeout.
WatchdogRan(e) == e.op \in {"nak_on_interval", "syn_on_interval", "syn_on_timeout"}

\* C19: when join_i returns false no watchdog is scheduled; a passive join
\* leaves the SYN watchdog unscheduled; after leave_i neither watchdog is
\* scheduled, no watchdog callback runs and nothing is sent.
C19_WatchdogsReleased ==
    /\ [](lifecycle = "join_failed" =>
            ~nak_watchdog_.scheduled /\ ~syn_watchdog_.scheduled)
    /\ [](~active => ~syn_watchdog_.scheduled)
    /\ [](lifecycle = "left" =>
            ~nak_watchdog_.scheduled /\ ~syn_watchdog_.scheduled)
    /\ [][(event'.op = "join_i" /\ ~event'.ret) => lifecycle' = "join_failed"]_vars
    /\ [][lifecycle = "left" => (~WatchdogRan(event') /\ outbox' = <<>>)]_vars

\* C19 witness: an active link has left at the moment both watchdog timers
\* had expired and neither callback had run yet.
C19_LeftWithCallbacksDue ==
    /\ lifecycle = "left"
    /\ active
    /\ nak_watchdog_.due = 0
    /\ syn_watchdog_.due = 0

\* C20: every ledger entry names a peer of the sequence map whose tracked
\* high is at least the entry's markedHigh; no peer leaves the map and no
\* tracked high decreases; expire_naks never logs that it failed to find a
\* peer's tracker.
C20_LedgerRefersToMap ==
    /\ [](\A it \in nak_history_ :
            /\ it.peer \in DOMAIN sequences_
            /\ high(sequences_[it.peer]) >= it.high)
    /\ [][\A p \in DOMAIN sequences_ :
            /\ p \in DOMAIN sequences_'
            /\ high(sequences_'[p]) >= high(sequences_[p])]_vars
    /\ [](<<"expire_naks", "failed to find sequence">> \notin log)

\* C20 witness: a handshake-request for the local peer has arrived from a
\* peer that a ledger entry recorded earlier names.
C20_SynFromPeerInLedger ==
    /\ event.op = "syn_received"
    /\ event.arg = LocalPeer
    /\ \E it \in nak_history_ : it.peer = event.peer /\ it.time < now

====
